---- MODULE Spec2Model ----
(***************************************************************************)
(* Model of package client (src/client/client.go): normalizeURL, the       *)
(* functional options, NewClient, Client.newRequest and                    *)
(* Client.setRequestHeaders, together with the parts of net/url and        *)
(* net/http that these functions call (url.Parse, URL.String,              *)
(* URL.ResolveReference, http.NewRequest, Header.Set).                     *)
(*                                                                         *)
(* A Go string is a sequence of tokens.  A token is a short run of         *)
(* characters that the library functions treat alike ("http", "a", "v1"),  *)
(* a single delimiter (":", "/", "?", "#", "[", " ") or one percent        *)
(* escape ("%2F").  The empty string is << >>.  Every function below works *)
(* on the token sequence the way the Go function works on the bytes.       *)
(***************************************************************************)
EXTENDS Naturals, Integers, Sequences, FiniteSets, TLC

VARIABLES
    opts,    \* NewClient: the options the caller supplied (opts ...Option)
    pc,      \* NewClient: "apply" (loop of line 109), "build" (line 115), "returned"
    idx,     \* NewClient: index of the next option of the range loop
    co,      \* NewClient: the local clientOptions
    client,  \* NewClient: the returned *Client (NilClient when nil)
    err,     \* NewClient: the returned error (NoError when nil)
    call     \* newRequest: per caller, its position, arguments, locals and results

vars == <<opts, pc, idx, co, client, err, call>>

(***************************************************************************)
(* Bounds of the model.                                                    *)
(***************************************************************************)
MaxOpts == 2       \* options per NewClient call, at most
MaxBasePath == 3   \* tokens of the path part of a generated base URL, at most
MaxRefPath == 3    \* tokens of the path argument of newRequest, at most

(***************************************************************************)
(* strings                                                                 *)
(***************************************************************************)
RECURSIVE SeqsUpTo(_, _)
SeqsUpTo(S, n) ==
    IF n = 0 THEN {<< >>}
    ELSE LET shorter == SeqsUpTo(S, n - 1)
         IN  shorter \cup {Append(s, x) : s \in shorter, x \in S}

\* strings.Index(s, t) for a one-token t, 1-based; 0 when absent
Index(s, t) ==
    IF \E i \in 1..Len(s) : s[i] = t
    THEN CHOOSE i \in 1..Len(s) : s[i] = t /\ \A j \in 1..(i - 1) : s[j] # t
    ELSE 0

\* strings.LastIndex(s, t) for a one-token t, 1-based; 0 when absent
LastIndex(s, t) ==
    IF \E i \in 1..Len(s) : s[i] = t
    THEN CHOOSE i \in 1..Len(s) : s[i] = t /\ \A j \in (i + 1)..Len(s) : s[j] # t
    ELSE 0

Count(s, t) == Cardinality({i \in 1..Len(s) : s[i] = t})

Contains(s, t) == Index(s, t) # 0

HasPrefix(s, t) == Len(s) >= 1 /\ s[1] = t

HasSuffix(s, t) == Len(s) >= 1 /\ s[Len(s)] = t

\* strings.Cut(s, t): before, after, found
CutAt(s, i) ==
    IF i = 0 THEN [before |-> s, after |-> << >>, found |-> FALSE]
    ELSE [before |-> SubSeq(s, 1, i - 1), after |-> SubSeq(s, i + 1, Len(s)),
          found |-> TRUE]

Cut(s, t) == CutAt(s, Index(s, t))

TrimPrefixMissing(s, t) == s

\* strings.TrimPrefix(s, t) for a one-token t
TrimPrefix(s, t) == IF HasPrefix(s, t) THEN Tail(s) ELSE s

\* strings.ToLower on a token sequence
RECURSIVE ToLower(_)
ToLower(s) ==
    IF s = << >> THEN << >>
    ELSE <<IF Head(s) = "HTTP" THEN "http" ELSE Head(s)>> \o ToLower(Tail(s))

(***************************************************************************)
(* errors                                                                  *)
(***************************************************************************)
NoError == [kind |-> "nil"]
ParseError(msg) == [kind |-> "parse", msg |-> msg]
\* fmt.Errorf("%w %s", errUnsupportedProtocolScheme, u.Scheme)
UnsupportedSchemeError(scheme) == [kind |-> "unsupported protocol scheme", scheme |-> scheme]
OptionError == [kind |-> "option"]
InvalidMethodError == [kind |-> "invalid method"]

(***************************************************************************)
(* net/url                                                                 *)
(***************************************************************************)
ZeroURL ==
    [Scheme |-> << >>, Opaque |-> << >>, Host |-> << >>, Path |-> << >>,
     RawPath |-> << >>, OmitHost |-> FALSE, ForceQuery |-> FALSE,
     RawQuery |-> << >>, Fragment |-> << >>]

\* tokens that start with a letter and go on with letters, digits and '.' 
LetterTokens ==
    {"http", "https", "ftp", "HTTP", "example.com", "build.sylabs.io", "api", "q", "f",
     "v1", "builds"}
\* tokens that start with a digit, '+', '-' or '.'
DotTokens == {".."}
\* percent escapes and what they decode to
Escapes == {"%2F", "%252F"}
Unhex(t) == IF t = "%2F" THEN "/" ELSE IF t = "%252F" THEN "%2F" ELSE t

\* url.getScheme
RECURSIVE getSchemeAt(_, _)
getSchemeAt(rawURL, i) ==
    IF i > Len(rawURL)
    THEN [scheme |-> << >>, rest |-> rawURL, err |-> NoError]
    ELSE IF rawURL[i] \in LetterTokens
    THEN getSchemeAt(rawURL, i + 1)
    ELSE IF rawURL[i] \in DotTokens
    THEN IF i = 1
         THEN [scheme |-> << >>, rest |-> rawURL, err |-> NoError]
         ELSE getSchemeAt(rawURL, i + 1)
    ELSE IF rawURL[i] = ":"
    THEN IF i = 1
         THEN [scheme |-> << >>, rest |-> << >>,
               err |-> ParseError("missing protocol scheme")]
         ELSE [scheme |-> SubSeq(rawURL, 1, i - 1),
               rest |-> SubSeq(rawURL, i + 1, Len(rawURL)), err |-> NoError]
    ELSE \* invalid character: there is no valid scheme
         [scheme |-> << >>, rest |-> rawURL, err |-> NoError]

getScheme(rawURL) == getSchemeAt(rawURL, 1)

\* url.unescape(s, encodePath): decodes every percent escape
RECURSIVE unescape(_)
unescape(s) == IF s = << >> THEN << >> ELSE <<Unhex(Head(s))>> \o unescape(Tail(s))

\* url.escape(s, encodePath): of the characters of the alphabet only '?',
\* '#', '[', ' ' and '%' are escaped in a path
EscapeToken(t) ==
    CASE t = "?" -> "%3F"
      [] t = "#" -> "%23"
      [] t = "[" -> "%5B"
      [] t = " " -> "%20"
      [] t = "%2F" -> "%252F"
      [] OTHER -> t

RECURSIVE escape(_)
escape(s) == IF s = << >> THEN << >> ELSE <<EscapeToken(Head(s))>> \o escape(Tail(s))

\* url.validEncoded(s, encodePath)
validEncoded(s) == \A i \in 1..Len(s) : s[i] \notin {"?", "#", "[", " "}

\* (*URL).setPath, with path the unescaped p
setPathTo(u, p, path) ==
    [u EXCEPT !.Path = path, !.RawPath = IF p = escape(path) THEN << >> ELSE p]

\* (*URL).setPath
setPath(u, p) == setPathTo(u, p, unescape(p))

\* (*URL).EscapedPath
EscapedPath(u) ==
    IF u.RawPath # << >> /\ validEncoded(u.RawPath) /\ unescape(u.RawPath) = u.Path
    THEN u.RawPath
    ELSE escape(u.Path)

\* url.parseHost (through url.parseAuthority; the alphabet has no '@')
parseHost(host) ==
    IF HasPrefix(host, "[")
    THEN \* the alphabet has no ']'
         [host |-> << >>, err |-> ParseError("missing ']' in host")]
    ELSE IF Contains(host, ":") /\ LastIndex(host, ":") # Len(host)
    THEN \* validOptionalPort: no token of the alphabet is a digit, so only the
         \* empty port is valid
         [host |-> << >>, err |-> ParseError("invalid port after host")]
    ELSE IF \E i \in 1..Len(host) : host[i] \in Escapes
    THEN \* unescape(host, encodeHost) rejects %2F
         [host |-> << >>, err |-> ParseError("invalid URL escape")]
    ELSE IF Contains(host, " ")
    THEN [host |-> << >>, err |-> ParseError("invalid character in host name")]
    ELSE [host |-> host, err |-> NoError]

\* url.parse: rest cut into the part before '?' and the query
splitQuery(rest) ==
    IF HasSuffix(rest, "?") /\ Count(rest, "?") = 1
    THEN [force |-> TRUE, rest |-> SubSeq(rest, 1, Len(rest) - 1), query |-> << >>]
    ELSE [force |-> FALSE, rest |-> Cut(rest, "?").before,
          query |-> Cut(rest, "?").after]

\* url.parse: what follows "//" cut at index i into authority and path
splitAuthority(s, i) ==
    IF i = 0 THEN [authority |-> s, rest |-> << >>]
    ELSE [authority |-> SubSeq(s, 1, i - 1), rest |-> SubSeq(s, i, Len(s))]

\* url.parse: the URL with the parsed host h and the path
parseWithHost(u0, h, rest) ==
    IF h.err # NoError
    THEN [url |-> ZeroURL, err |-> h.err]
    ELSE [url |-> setPath([u0 EXCEPT !.Host = h.host], rest), err |-> NoError]

\* url.parse: authority and path
parseAuthority(u0, a) == parseWithHost(u0, parseHost(a.authority), a.rest)

\* url.parse, after the scheme and the query are split off into u0
parseRest(u0, rest) ==
    IF ~HasPrefix(rest, "/") /\ u0.Scheme # << >>
    THEN \* rootless paths are opaque
         [url |-> [u0 EXCEPT !.Opaque = rest], err |-> NoError]
    ELSE IF ~HasPrefix(rest, "/") /\ Contains(Cut(rest, "/").before, ":")
    THEN [url |-> ZeroURL,
          err |-> ParseError("first path segment in URL cannot contain colon")]
    ELSE IF /\ Len(rest) >= 2 /\ rest[1] = "/" /\ rest[2] = "/"
            /\ (u0.Scheme # << >> \/ ~(Len(rest) >= 3 /\ rest[3] = "/"))
    THEN parseAuthority(u0, splitAuthority(SubSeq(rest, 3, Len(rest)),
                                           Index(SubSeq(rest, 3, Len(rest)), "/")))
    ELSE IF u0.Scheme # << >> /\ HasPrefix(rest, "/")
    THEN [url |-> setPath([u0 EXCEPT !.OmitHost = TRUE], rest), err |-> NoError]
    ELSE [url |-> setPath(u0, rest), err |-> NoError]

\* url.parse, after getScheme returned s
parseScheme(s, q) ==
    IF s.err # NoError
    THEN [url |-> ZeroURL, err |-> s.err]
    ELSE parseRest([ZeroURL EXCEPT !.Scheme = ToLower(s.scheme),
                                   !.ForceQuery = q.force, !.RawQuery = q.query],
                   q.rest)

\* url.parse(rawURL, false)
parseFrom(s) == parseScheme(s, splitQuery(s.rest))

parse(rawURL) == parseFrom(getScheme(rawURL))

\* url.Parse: the fragment is set on the parsed URL
withFragment(r, frag) ==
    IF r.err # NoError \/ frag = << >>
    THEN r
    ELSE [url |-> [r.url EXCEPT !.Fragment = unescape(frag)], err |-> NoError]

ParseCut(c) == withFragment(parse(c.before), c.after)

\* url.Parse
Parse(rawURL) == ParseCut(Cut(rawURL, "#"))

\* (*URL).String: "scheme:"
schemePart(u) == IF u.Scheme # << >> THEN u.Scheme \o <<":">> ELSE << >>

\* (*URL).String: "//host"
authorityPart(u) ==
    IF (u.Scheme # << >> \/ u.Host # << >>) /\ ~(u.OmitHost /\ u.Host = << >>)
    THEN (IF u.Host # << >> \/ u.Path # << >> THEN <<"/", "/">> ELSE << >>) \o u.Host
    ELSE << >>

\* (*URL).String: the hierarchical part, path being u.EscapedPath()
hierPart(u, path) ==
    authorityPart(u)
        \o (IF path # << >> /\ path[1] # "/" /\ u.Host # << >> THEN <<"/">> ELSE << >>)
        \o (IF u.Scheme = << >> /\ u.Host = << >>
               /\ Contains(Cut(path, "/").before, ":")
            THEN <<".", "/">> ELSE << >>)
        \o path

\* (*URL).String
String(u) ==
    schemePart(u)
        \o (IF u.Opaque # << >> THEN u.Opaque ELSE hierPart(u, EscapedPath(u)))
        \o (IF u.ForceQuery \/ u.RawQuery # << >> THEN <<"?">> \o u.RawQuery ELSE << >>)
        \o (IF u.Fragment # << >> THEN <<"#">> \o escape(u.Fragment) ELSE << >>)

\* url.resolvePath: the builder and first after the element elem of the loop;
\* index is the last '/' of what is written after the leading one
resolveStep(elem, dst, first, index) ==
    IF elem = <<".">>
    THEN [dst |-> dst, first |-> FALSE]
    ELSE IF elem = <<"..">>
    THEN IF index = 0
         THEN [dst |-> <<"/">>, first |-> TRUE]
         ELSE [dst |-> <<"/">> \o SubSeq(Tail(dst), 1, index - 1), first |-> first]
    ELSE [dst |-> dst \o (IF first THEN << >> ELSE <<"/">>) \o elem, first |-> FALSE]

\* url.resolvePath, the loop over the elements of full; dst holds the
\* strings.Builder, which starts with the leading '/'
RECURSIVE resolveLoop(_, _, _)
resolveNext(c, step) ==
    IF c.found
    THEN resolveLoop(c.after, step.dst, step.first)
    ELSE IF c.before = <<".">> \/ c.before = <<"..">>
    THEN step.dst \o <<"/">>
    ELSE step.dst

resolveElem(c, dst, first) ==
    resolveNext(c, resolveStep(c.before, dst, first, LastIndex(Tail(dst), "/")))

resolveLoop(remaining, dst, first) == resolveElem(Cut(remaining, "/"), dst, first)

\* url.resolvePath: one of two leading separators is dropped
dropDoubleSeparator(r) == IF Len(r) > 1 /\ r[2] = "/" THEN Tail(r) ELSE r

\* url.resolvePath: the cleaned full path
cleanPath(full) ==
    IF full = << >> THEN << >>
    ELSE dropDoubleSeparator(resolveLoop(full, <<"/">>, TRUE))

\* url.resolvePath
resolvePath(base, ref) ==
    cleanPath(IF ref = << >> THEN base
              ELSE IF ref[1] # "/"
              THEN SubSeq(base, 1, LastIndex(base, "/")) \o ref
              ELSE ref)

\* (*URL).ResolveReference: the copy of ref takes the query and fragment of u
\* when ref has no path and no query
inheritQuery(u, ref, url) ==
    IF ref.Path = << >> /\ ~ref.ForceQuery /\ ref.RawQuery = << >>
    THEN [url EXCEPT !.RawQuery = u.RawQuery,
                     !.Fragment = IF ref.Fragment = << >> THEN u.Fragment ELSE @]
    ELSE url

\* (*URL).ResolveReference with url the copy of ref that has the scheme
resolveInto(u, ref, url) ==
    IF ref.Scheme # << >> \/ ref.Host # << >>
    THEN setPath(url, resolvePath(EscapedPath(ref), << >>))
    ELSE IF ref.Opaque # << >>
    THEN [url EXCEPT !.Host = << >>, !.Path = << >>]
    ELSE IF ref.Path = << >> /\ u.Opaque # << >>
    THEN [inheritQuery(u, ref, url) EXCEPT
              !.Opaque = u.Opaque, !.Host = << >>, !.Path = << >>]
    ELSE setPath([inheritQuery(u, ref, url) EXCEPT !.Host = u.Host],
                 resolvePath(EscapedPath(u), EscapedPath(ref)))

\* (*URL).ResolveReference; u is read, never written: the result is a copy of ref
ResolveReference(u, ref) ==
    resolveInto(u, ref, [ref EXCEPT !.Scheme = IF ref.Scheme = << >> THEN u.Scheme ELSE @])

(***************************************************************************)
(* net/http                                                                *)
(***************************************************************************)
NilRequest == [nil |-> TRUE, Method |-> << >>, URL |-> ZeroURL, Header |-> {}]

\* http.validMethod: a non-empty sequence of token characters
validMethod(method) == method # << >> /\ ~Contains(method, " ")

\* http.removeEmptyPort
removeEmptyPort(host) ==
    IF HasSuffix(host, ":") THEN SubSeq(host, 1, Len(host) - 1) ELSE host

\* http.NewRequest after the URL is parsed: the request has an empty header set
requestFor(m, p) ==
    IF p.err # NoError THEN [r |-> NilRequest, err |-> p.err]
    ELSE [r |-> [nil |-> FALSE, Method |-> m,
                 URL |-> [p.url EXCEPT !.Host = removeEmptyPort(@)],
                 Header |-> {}],
          err |-> NoError]

\* http.NewRequest with the method defaulted
requestWithMethod(m, rawURL) ==
    IF ~validMethod(m) THEN [r |-> NilRequest, err |-> InvalidMethodError]
    ELSE requestFor(m, Parse(rawURL))

\* http.NewRequest(method, url, body)
HTTPNewRequest(method, rawURL) ==
    requestWithMethod(IF method = << >> THEN <<"GET">> ELSE method, rawURL)

\* Header.Set(key, value): a header set is a set of <<key, value>> pairs
HeaderSet(h, key, value) == {e \in h : e[1] # key} \cup {<<key, value>>}

(***************************************************************************)
(* package client                                                          *)
(***************************************************************************)
normalizeParsedNoSeparator(p) ==
    IF p.err # NoError THEN [url |-> ZeroURL, err |-> p.err]
    ELSE IF p.url.Scheme # <<"http">> /\ p.url.Scheme # <<"https">>
    THEN [url |-> ZeroURL, err |-> UnsupportedSchemeError(p.url.Scheme)]
    ELSE [url |-> p.url, err |-> NoError]

normalizeParsedAnyScheme(p) ==
    IF p.err # NoError THEN [url |-> ZeroURL, err |-> p.err]
    ELSE IF ~HasSuffix(p.url.Path, "/")
    THEN [url |-> [p.url EXCEPT !.Path = @ \o <<"/">>], err |-> NoError]
    ELSE [url |-> p.url, err |-> NoError]

\* normalizeURL after url.Parse returned p
normalizeParsed(p) ==
    IF p.err # NoError THEN [url |-> ZeroURL, err |-> p.err]
    ELSE IF p.url.Scheme # <<"http">> /\ p.url.Scheme # <<"https">>
    THEN [url |-> ZeroURL, err |-> UnsupportedSchemeError(p.url.Scheme)]
    ELSE IF ~HasSuffix(p.url.Path, "/")
    THEN [url |-> [p.url EXCEPT !.Path = @ \o <<"/">>], err |-> NoError]
    ELSE [url |-> p.url, err |-> NoError]

\* normalizeURL: the returned *url.URL (ZeroURL when nil) and the error
normalizeURL(rawURL) == normalizeParsed(Parse(rawURL))

\* the *http.Client values: the nil pointer, http.DefaultClient, one of the caller's
HTTPClients == {"nil", "http.DefaultClient", "custom"}

defaultBaseURL == <<"https", ":", "/", "/", "build.sylabs.io", "/">>

\* an Option is a closure over its argument; fails is the error it returns
OptBaseURL(url) ==
    [kind |-> "OptBaseURL", str |-> url, hc |-> "nil", fails |-> FALSE]
OptBearerToken(token) ==
    [kind |-> "OptBearerToken", str |-> token, hc |-> "nil", fails |-> FALSE]
OptUserAgent(agent) ==
    [kind |-> "OptUserAgent", str |-> agent, hc |-> "nil", fails |-> FALSE]
OptHTTPClient(c) ==
    [kind |-> "OptHTTPClient", str |-> << >>, hc |-> c, fails |-> FALSE]
\* an Option written by the caller (type Option is exported) that returns an error
OptFailing == [kind |-> "custom", str |-> << >>, hc |-> "nil", fails |-> TRUE]

\* the first option that touches the base URL wins
ApplyOptFirstWins(opt, c) ==
    CASE opt.kind = "OptBaseURL" ->
            IF c.baseURL = defaultBaseURL THEN [c EXCEPT !.baseURL = opt.str] ELSE c
      [] opt.kind = "OptBearerToken" -> [c EXCEPT !.bearerToken = opt.str]
      [] opt.kind = "OptUserAgent" -> [c EXCEPT !.userAgent = opt.str]
      [] opt.kind = "OptHTTPClient" -> [c EXCEPT !.httpClient = opt.hc]
      [] OTHER -> c

\* opt(&co): the clientOptions after the closure ran
ApplyOpt(opt, c) ==
    CASE opt.kind = "OptBaseURL" -> [c EXCEPT !.baseURL = opt.str]
      [] opt.kind = "OptBearerToken" -> [c EXCEPT !.bearerToken = opt.str]
      [] opt.kind = "OptUserAgent" -> [c EXCEPT !.userAgent = opt.str]
      [] opt.kind = "OptHTTPClient" -> [c EXCEPT !.httpClient = opt.hc]
      [] OTHER -> c

NilClient ==
    [nil |-> TRUE, BaseURL |-> ZeroURL, AuthToken |-> << >>, UserAgent |-> << >>,
     HTTPClient |-> "nil"]

\* co := clientOptions{baseURL: defaultBaseURL, httpClient: http.DefaultClient}
DefaultOptions ==
    [baseURL |-> defaultBaseURL, bearerToken |-> << >>, userAgent |-> << >>,
     httpClient |-> "http.DefaultClient"]

\* setRequestHeaders, lines 147-149
setAuthorization(c, h) ==
    IF c.AuthToken # << >>
    THEN HeaderSet(h, "Authorization", <<"BEARER ">> \o c.AuthToken)
    ELSE h

\* setRequestHeaders, lines 150-152
setUserAgent(c, h) ==
    IF c.UserAgent # << >> THEN HeaderSet(h, "User-Agent", c.UserAgent) ELSE h

setRequestHeadersMixedCase(c, h) ==
    setUserAgent(c, IF c.AuthToken # << >>
                    THEN HeaderSet(h, "Authorization", <<"Bearer ">> \o c.AuthToken)
                    ELSE h)

\* (*Client).setRequestHeaders: the header set h after the call
setRequestHeaders(c, h) == setUserAgent(c, setAuthorization(c, h))

\* newRequest, line 133: the resolved URL u
resolveRequestURL(c, path) ==
    ResolveReference(c.BaseURL, [ZeroURL EXCEPT !.Path = TrimPrefix(path, "/")])

\* newRequest, lines 138-143, after http.NewRequest returned n
requestWithHeaders(c, n) ==
    IF n.err # NoError THEN [r |-> NilRequest, err |-> n.err]
    ELSE [r |-> [n.r EXCEPT !.Header = setRequestHeaders(c, @)], err |-> NoError]

\* (*Client).newRequest as a whole: the returned request and error
newRequest(c, method, path) ==
    requestWithHeaders(c, HTTPNewRequest(method, String(resolveRequestURL(c, path))))

(***************************************************************************)
(* Inputs                                                                  *)
(***************************************************************************)
\* the goroutines that share the Client
Callers == {"c1", "c2"}

\* base URLs of the lifecycle specification: one without the trailing
\* separator, two with an escaped separator in the path, one with an
\* unsupported scheme, one that does not parse
BaseURLs ==
    {<<"https", ":", "/", "/", "example.com", "/", "api">>,
     <<"https", ":", "/", "/", "example.com", "/", "api", "%2F">>,
     <<"https", ":", "/", "/", "example.com", "/", "api", "%2F", "v1">>,
     <<"ftp", ":", "/", "/", "example.com">>,
     <<"http", ":", "/", "/", "[">>}

BearerTokens == {<< >>, <<"abc123">>}
UserAgents == {<< >>, <<"agent">>}

Options ==
    {OptBaseURL(u) : u \in BaseURLs}
        \cup {OptBearerToken(t) : t \in BearerTokens}
        \cup {OptUserAgent(a) : a \in UserAgents}
        \cup {OptHTTPClient(c) : c \in {"nil", "custom"}}
        \cup {OptFailing}

\* methods: the empty one (GET), a valid one, one with a space
Methods == {<< >>, <<"POST">>, <<"GET", " ">>}

\* path arguments of the lifecycle specification
Paths == {<<"v1", "/", "builds">>, <<"/", "v1", "/", "builds">>}

\* generated base URLs: a scheme and authority part, a path part, a query or fragment
BasePrefixes ==
    {<<"https", ":", "/", "/", "example.com">>,
     <<"http", ":", "/", "/", "example.com">>,
     <<"HTTP", ":", "/", "/", "example.com">>,
     <<"ftp", ":", "/", "/", "example.com">>,
     <<"http", ":", "/", "/", "[">>,
     <<"http", ":">>,
     <<":">>,
     << >>}
BasePathTokens == {"/", "api", "%2F"}
BaseSuffixes == {<< >>, <<"?", "q">>, <<"#", "f">>}
RawURLs ==
    {pre \o path \o suf :
        pre \in BasePrefixes, path \in SeqsUpTo(BasePathTokens, MaxBasePath),
        suf \in BaseSuffixes}

\* generated path arguments
RefPathTokens == {"/", "v1", ".."}
RefPaths == SeqsUpTo(RefPathTokens, MaxRefPath)

(***************************************************************************)
(* State machine                                                           *)
(***************************************************************************)
IdleCall ==
    [pc |-> "idle", method |-> << >>, path |-> << >>, u |-> ZeroURL,
     r |-> NilRequest, err |-> NoError]

\* a caller is about to call NewClient(opts...)
InitWith(optSeqs) ==
    /\ opts \in optSeqs
    /\ pc = "apply"
    /\ idx = 1
    /\ co = DefaultOptions
    /\ client = NilClient
    /\ err = NoError
    /\ call = [c \in Callers |-> IdleCall]

Init == InitWith(SeqsUpTo(Options, MaxOpts))

InitURL == InitWith({<< >>} \cup {<<OptBaseURL(u)>> : u \in RawURLs})

\* NewClient, one iteration of the loop over opts
ApplyOption ==
    /\ pc = "apply"
    /\ idx <= Len(opts)
    /\ IF opts[idx].fails
       THEN /\ err' = OptionError
            /\ pc' = "returned"
            /\ UNCHANGED <<idx, co>>
       ELSE /\ co' = ApplyOpt(opts[idx], co)
            /\ idx' = idx + 1
            /\ UNCHANGED <<err, pc>>
    /\ UNCHANGED <<opts, client, call>>

\* returns &c although normalizeURL failed
ReturnPartial(n) ==
    /\ err' = n.err
    /\ client' = [nil |-> FALSE, BaseURL |-> n.url, AuthToken |-> co.bearerToken,
                  UserAgent |-> co.userAgent, HTTPClient |-> co.httpClient]

ConstructPartial ==
    /\ pc = "apply"
    /\ idx > Len(opts)
    /\ ReturnPartial(normalizeURL(co.baseURL))
    /\ pc' = "returned"
    /\ UNCHANGED <<opts, idx, co, call>>

\* NewClient, lines 115-128, after normalizeURL returned n
ReturnClient(n) ==
    IF n.err # NoError
    THEN /\ err' = n.err
         /\ client' = NilClient
    ELSE /\ err' = NoError
         /\ client' = [nil |-> FALSE, BaseURL |-> n.url,
                       AuthToken |-> co.bearerToken,
                       UserAgent |-> co.userAgent,
                       HTTPClient |-> co.httpClient]

\* NewClient after the loop: build c, normalize the base URL, return
Construct ==
    /\ pc = "apply"
    /\ idx > Len(opts)
    /\ ReturnClient(normalizeURL(co.baseURL))
    /\ pc' = "returned"
    /\ UNCHANGED <<opts, idx, co, call>>

\* resolves in place: the result is written to c.BaseURL
ResolveInPlace(c, method, path) ==
    /\ ~client.nil
    /\ call[c].pc = "idle"
    /\ call' = [call EXCEPT ![c] =
                  [IdleCall EXCEPT !.pc = "resolved", !.method = method,
                                   !.path = path,
                                   !.u = resolveRequestURL(client, path)]]
    /\ client' = [client EXCEPT !.BaseURL = resolveRequestURL(client, path)]
    /\ UNCHANGED <<opts, pc, idx, co, err>>

\* newRequest, line 133: caller c enters with (method, path) and resolves the URL
Resolve(c, method, path) ==
    /\ ~client.nil
    /\ call[c].pc = "idle"
    /\ call' = [call EXCEPT ![c] =
                  [IdleCall EXCEPT !.pc = "resolved", !.method = method,
                                   !.path = path,
                                   !.u = resolveRequestURL(client, path)]]
    /\ UNCHANGED <<opts, pc, idx, co, client, err>>

\* newRequest, lines 138-140, after http.NewRequest returned n
Built(c, n) ==
    call' = [call EXCEPT ![c].pc = IF n.err # NoError THEN "returned" ELSE "built",
                         ![c].r = n.r,
                         ![c].err = n.err]

\* newRequest, lines 137-140: http.NewRequest(method, u.String(), body)
BuildRequest(c) ==
    /\ call[c].pc = "resolved"
    /\ Built(c, HTTPNewRequest(call[c].method, String(call[c].u)))
    /\ UNCHANGED <<opts, pc, idx, co, client, err>>

\* newRequest, lines 141-143: c.setRequestHeaders(r.Header); return r, nil
SetHeaders(c) ==
    /\ call[c].pc = "built"
    /\ call' = [call EXCEPT ![c].pc = "returned",
                            ![c].r.Header = setRequestHeaders(client, @)]
    /\ UNCHANGED <<opts, pc, idx, co, client, err>>

\* newRequest returns n to caller c
Finished(c, method, path, n) ==
    call' = [call EXCEPT ![c] =
               [pc |-> "returned", method |-> method, path |-> path,
                u |-> resolveRequestURL(client, path), r |-> n.r, err |-> n.err]]

\* newRequest run from entry to return by one caller
NewRequest(c, method, path) ==
    /\ ~client.nil
    /\ call[c].pc = "idle"
    /\ Finished(c, method, path, newRequest(client, method, path))
    /\ UNCHANGED <<opts, pc, idx, co, client, err>>

\* the caller of newRequest is done with what it returned
Return(c) ==
    /\ call[c].pc = "returned"
    /\ call' = [call EXCEPT ![c] = IdleCall]
    /\ UNCHANGED <<opts, pc, idx, co, client, err>>

Next ==
    \/ ApplyOption
    \/ Construct
    \/ \E c \in Callers, m \in Methods, p \in Paths : Resolve(c, m, p)
    \/ \E c \in Callers : BuildRequest(c)
    \/ \E c \in Callers : SetHeaders(c)
    \/ \E c \in Callers : Return(c)

\* NewClient and interleaved newRequest calls of the callers
Spec == Init /\ [][Next]_vars

NextURL ==
    \/ ApplyOption
    \/ Construct
    \/ \E m \in Methods, p \in RefPaths : NewRequest("c1", m, p)
    \/ Return("c1")

\* NewClient on a generated base URL, then newRequest calls on generated paths
SpecURL == InitURL /\ [][NextURL]_vars

(***************************************************************************)
(* Properties                                                              *)
(***************************************************************************)
HTTPSchemes == {<<"http">>, <<"https">>}

\* p has a segment "." or ".."
HasDotSegment(p) ==
    \E i \in 1..Len(p) :
        /\ p[i] \in {".", ".."}
        /\ (i = 1 \/ p[i - 1] = "/")
        /\ (i = Len(p) \/ p[i + 1] = "/")

\* once its single leading separator is stripped, p is not rooted
IsRelative(p) == ~HasPrefix(TrimPrefix(p, "/"), "/")

\* caller c holds the request and the error of n
SameResult(c, n) == call[c].r = n.r /\ call[c].err = n.err

\* caller c has a request that newRequest returned
Returned(c) == call[c].pc = "returned" /\ call[c].err = NoError

\* the index of the first option of opts that returns an error, 0 when none does
FirstFailing ==
    IF \E i \in 1..Len(opts) : opts[i].fails
    THEN CHOOSE i \in 1..Len(opts) :
            opts[i].fails /\ \A j \in 1..(i - 1) : ~opts[j].fails
    ELSE 0

\* the last option of the given kind in opts, 0 when there is none
LastOf(kind) ==
    IF \E i \in 1..Len(opts) : opts[i].kind = kind
    THEN CHOOSE i \in 1..Len(opts) :
            opts[i].kind = kind /\ \A j \in (i + 1)..Len(opts) : opts[j].kind # kind
    ELSE 0

LastStr(kind, default) == IF LastOf(kind) = 0 THEN default ELSE opts[LastOf(kind)].str

LastHTTPClient ==
    IF LastOf("OptHTTPClient") = 0 THEN "http.DefaultClient"
    ELSE opts[LastOf("OptHTTPClient")].hc

\* C1: for a Client with an http or https base URL and a relative path
\* without dot segments, the URL of the request newRequest returns has the
\* base URL's path followed by the relative path, and the base URL's scheme
\* and authority.
C1_RequestPathExtendsBasePath ==
    \A c \in Callers :
        (/\ Returned(c)
         /\ IsRelative(call[c].path)
         /\ ~HasDotSegment(call[c].path))
        => /\ call[c].r.URL.Path = client.BaseURL.Path \o TrimPrefix(call[c].path, "/")
           /\ call[c].r.URL.Scheme = client.BaseURL.Scheme
           /\ call[c].r.URL.Host = client.BaseURL.Host

\* NewClient rejected the scheme of the parsed base URL p, if it is not http or https
RejectedScheme(p) ==
    (p.err = NoError /\ p.url.Scheme \notin HTTPSchemes)
    => client.nil /\ err = UnsupportedSchemeError(p.url.Scheme)

\* C2: the base URL of a Client has scheme http or https; when the base URL
\* string parses and its scheme is anything else (the empty scheme included),
\* NewClient returns no Client and the unsupported-scheme error that names the
\* scheme.
C2_SchemeIsHTTPOrHTTPS ==
    /\ ~client.nil => client.BaseURL.Scheme \in HTTPSchemes
    /\ (pc = "returned" /\ FirstFailing = 0)
       => RejectedScheme(Parse(co.baseURL))

C2_Witness ==
    /\ pc = "returned"
    /\ client.nil
    /\ err = UnsupportedSchemeError(<<"ftp">>)

\* C3: the path of the base URL of every Client NewClient returns ends with
\* '/', before and after newRequest calls; with no options the base URL is
\* https://build.sylabs.io/.
C3_BasePathEndsWithSeparator ==
    /\ ~client.nil => HasSuffix(client.BaseURL.Path, "/")
    /\ (pc = "returned" /\ opts = << >>)
       => ~client.nil /\ String(client.BaseURL) = defaultBaseURL

\* a Client built from a base URL whose path had no trailing separator, after
\* a newRequest call
C3_Witness ==
    /\ ~client.nil
    /\ ~HasSuffix(Parse(co.baseURL).url.Path, "/")
    /\ Returned("c1")

\* C4: NewClient returns a Client or an error, never both and never neither;
\* it stops at the first option that returns an error, with that error and
\* without applying later options or normalizing the base URL; when the
\* options succeed and normalization fails it returns that error and no Client.
C4_NoPartialConstruction ==
    /\ pc # "returned" => client.nil /\ err = NoError
    /\ pc = "returned" => (client.nil <=> err # NoError)
    /\ (pc = "returned" /\ FirstFailing # 0)
       => err = OptionError /\ client.nil /\ idx = FirstFailing
    /\ (pc = "returned" /\ FirstFailing = 0 /\ normalizeURL(co.baseURL).err # NoError)
       => client.nil /\ err = normalizeURL(co.baseURL).err

\* NewClient stopped at a failing option that a valid option follows
C4_Witness ==
    /\ pc = "returned"
    /\ err = OptionError
    /\ client.nil
    /\ idx < Len(opts)

\* C5: the HTTPClient of a Client NewClient returns is never nil.
C5_TransportNeverNil == ~client.nil => client.HTTPClient # "nil"

\* the header set that the Client's token and user agent determine
ExpectedHeader(c) ==
    (IF c.AuthToken # << >>
     THEN {<<"Authorization", <<"BEARER ">> \o c.AuthToken>>} ELSE {})
        \cup (IF c.UserAgent # << >> THEN {<<"User-Agent", c.UserAgent>>} ELSE {})

\* C6: a request newRequest returns carries Authorization: BEARER <token> iff
\* the token is non-empty, User-Agent: <agent> iff the agent is non-empty, and
\* no other header.
C6_HeadersFromClient ==
    \A c \in Callers : Returned(c) => call[c].r.Header = ExpectedHeader(client)

\* a request with the Authorization header and without User-Agent
C6_Witness ==
    /\ Returned("c1")
    /\ client.AuthToken = <<"abc123">>
    /\ client.UserAgent = << >>
    /\ call["c1"].r.Header = {<<"Authorization", <<"BEARER ", "abc123">>>>}

\* C7: for a path p that does not start with '/', newRequest with '/' + p
\* returns what newRequest with p returns.
C7_LeadingSeparatorStripped ==
    \A c \in Callers :
        (/\ call[c].pc = "returned"
         /\ HasPrefix(call[c].path, "/")
         /\ ~HasPrefix(Tail(call[c].path), "/"))
        => SameResult(c, newRequest(client, call[c].method, Tail(call[c].path)))

\* newRequest returned for "/v1" on a base URL whose path is not the root, where
\* a second leading separator would resolve to another URL
C7_Witness ==
    /\ Returned("c1")
    /\ call["c1"].path = <<"/", "v1">>
    /\ client.BaseURL.Path = <<"/", "api", "/">>
    /\ call["c1"].r.URL.Path = <<"/", "api", "/", "v1">>
    /\ newRequest(client, call["c1"].method, <<"/", "/", "v1">>).r.URL.Path = <<"/", "v1">>

\* C8: normalizeURL applied to the string form of the URL it returned succeeds
\* and returns an equal URL.
C8_NormalizeIdempotent ==
    ~client.nil => normalizeURL(String(client.BaseURL)) = [url |-> client.BaseURL, err |-> NoError]

\* every finished newRequest call returned what the Client and its own
\* arguments determine
C9_CallsIndependent ==
    \A c \in Callers :
        call[c].pc = "returned"
        => SameResult(c, newRequest(client, call[c].method, call[c].path))

\* C9: a constructed Client never changes, whatever the interleaving of
\* newRequest calls, and each call returns what the Client and its own
\* arguments determine.
C9_ClientImmutable ==
    /\ []C9_CallsIndependent
    /\ [][~client.nil => client' = client]_vars

\* one caller has its request while the other is between http.NewRequest and
\* setRequestHeaders, on a different path
C9_Witness ==
    /\ ~client.nil
    /\ Returned("c1")
    /\ call["c2"].pc = "built"
    /\ call["c1"].path # call["c2"].path

\* NewClient returned n's error, or the Client made of n's URL and the last options
BuiltFromLast(n) ==
    /\ err = n.err
    /\ n.err = NoError
       => client = [nil |-> FALSE, BaseURL |-> n.url,
                    AuthToken |-> LastStr("OptBearerToken", << >>),
                    UserAgent |-> LastStr("OptUserAgent", << >>),
                    HTTPClient |-> LastHTTPClient]

\* C10: when no option fails, NewClient returns what the last option of each
\* kind (or the default) gives: token, user agent and transport are the last
\* values set, and the base URL is the normalization of the last base URL
\* alone, so an earlier base URL that would be rejected does not matter.
C10_LastOptionWins ==
    (pc = "returned" /\ FirstFailing = 0)
    => BuiltFromLast(normalizeURL(LastStr("OptBaseURL", defaultBaseURL)))

\* a base URL with an unsupported scheme overridden by a valid one
C10_Witness ==
    /\ pc = "returned"
    /\ opts = <<OptBaseURL(<<"ftp", ":", "/", "/", "example.com">>),
                OptBaseURL(<<"https", ":", "/", "/", "example.com", "/", "api">>)>>
    /\ ~client.nil
    /\ String(client.BaseURL) = <<"https", ":", "/", "/", "example.com", "/", "api", "/">>

====
